---------------------------- MODULE Spec2Model ----------------------------
(***************************************************************************)
(* ProgressNotifier (python/progress_notifier/__init__.py): the delivery   *)
(* self-test, the message dispatcher and the throttle engine of one        *)
(* notifier instance, driven by a single caller.  Each public call         *)
(* (send_now, maybe_send) is one atomic step: the notifier is synchronous  *)
(* and blocking.  The environment supplies the wall-clock reading, the     *)
(* outcome of every subprocess.run / urlopen call and whether the media    *)
(* file exists.  Three further specifications drive the command-line       *)
(* entry point main (SpecMain), the process wrapper wrap (SpecWrap) and     *)
(* the channel classification _detect_channel_type (SpecFormat).           *)
(***************************************************************************)
EXTENDS Integers, Sequences, FiniteSets, TLC

\* ------------------------------------------------------------------ bounds
\* Largest wall-clock reading time.time() returns in the model.
MaxTime == 2
\* Largest interval_sec / plot_interval_sec a notifier is constructed with.
MaxInterval == 1
\* Number of public calls made on one notifier.
MaxCalls == 2

\* ------------------------------------------------------------ value domains
\* Python's None (what _env returns for an unset or empty variable).
None == "None"

\* Values of OPENCLAW_PROGRESS_CHANNEL / OPENCLAW_DEFAULT_DM_CHANNEL.
Channels == {None, "discord"}
\* Values of OPENCLAW_PROGRESS_TARGET / OPENCLAW_DEFAULT_DM_TARGET.
Targets == {None, "channel:123"}
\* Values of OPENCLAW_GATEWAY_URL: unset, a well-formed URL, and a value with
\* no scheme, for which urllib.request.Request raises ValueError.
GoodUrl == "http://gw:18789"
BadUrl == "gateway.local"
GatewayUrls == {None, GoodUrl, BadUrl}
\* Values of OPENCLAW_GATEWAY_TOKEN.
GatewayTokens == {None, "tok"}
\* The message argument of send_now / maybe_send.
Messages == {"msg"}
\* The plot_path argument of send_now / maybe_send.
PlotPaths == {None, "/tmp/p.png"}
\* Readings of time.time(): the wall clock, in seconds since the epoch.  Each
\* call may read any value: the wall clock is not monotonic (it can be set
\* back between two calls) and nothing relates it to the intervals.
Times == 0..MaxTime
\* Values of interval_sec and plot_interval_sec.
Intervals == 0..MaxInterval

\* The timeout keyword of each blocking external call, as a sequence: empty
\* when the call passes no timeout.
\* subprocess.run(..., timeout=10) of the dry-run probe.
ProbeTimeout == <<10>>
\* subprocess.run(args, check=False) of the dispatch: no timeout keyword.
DispatchTimeout == <<>>
\* urllib.request.urlopen(req, timeout=15).
HttpTimeout == <<15>>

\* A blocking call given a timeout ends with an exception when the peer never
\* answers; one given none waits for ever ("hang").
Unbounded(timeout) == IF timeout = <<>> THEN {"hang"} ELSE {}

\* Outcomes of the dry-run probe subprocess.run(..., timeout=10).
ProbeOutcomes ==
    {"ok", "unknown_channel", "failed", "exception"} \cup Unbounded(ProbeTimeout)
\* Outcomes of the dispatching subprocess.run(args, check=False).
RunOutcomes == {"ok", "nonzero", "exception"} \cup Unbounded(DispatchTimeout)
\* Outcomes of urllib.request.urlopen(req, timeout=15).
HttpOutcomes == {"ok", "error"} \cup Unbounded(HttpTimeout)

\* Python truthiness of an optional string: None and "" are falsy.
Truthy(s) == s # None /\ s # ""

VARIABLES
    interval_sec,       \* self.interval_sec
    plot_interval_sec,  \* self.plot_interval_sec
    last_sent,          \* self.last_sent
    last_plot_sent,     \* self.last_plot_sent
    channel,            \* self.channel
    target,             \* self.target
    gateway_url,        \* self.gateway_url
    gateway_token,      \* self.gateway_token
    tested,             \* self._tested
    use_http,           \* self._use_http
    cli_available,      \* self._cli_available
    calls,              \* number of public calls made so far
    probes,             \* number of dry-run probes issued so far
    probed,             \* outcome of the latest dry-run probe, "none" before it
    last,               \* what the latest public call did
    prev,               \* summary of the call before it
    frames              \* per caller, the maybe_send call it has in progress

vars == <<interval_sec, plot_interval_sec, last_sent, last_plot_sent, channel,
          target, gateway_url, gateway_token, tested, use_http, cli_available,
          calls, probes, probed, last, prev, frames>>

config == <<interval_sec, plot_interval_sec, channel, target, gateway_url,
            gateway_token, cli_available>>


\* ------------------------------------------------------------------ callers
\* The callers that may share one notifier.  A caller that is inside a
\* maybe_send call has a frame: where the call stands (pc), the clock
\* reading it took (now) and the path it sent over (path).  Two more fields
\* record how the call ran: alone is FALSE once another call was in
\* progress at the same time, early is TRUE when the call sent over the CLI
\* while another call's self-test had not finished.
Callers == {"a", "b"}
IdleFrame ==
    [pc |-> "idle", now |-> 0, path |-> "none", alone |-> TRUE, early |-> FALSE]
\* No caller is inside a call: the single-caller specifications stay here.
NoFrames == [c \in Callers |-> IdleFrame]

\* ------------------------------------------------------- environment inputs
\* What the outside world answers during one public call.
Envs == [probe : ProbeOutcomes, run : RunOutcomes, http : HttpOutcomes,
         isfile : BOOLEAN]

\* --------------------------------------------------------------- arguments
\* The argument vector of the dry-run probe (_selftest).
ProbeArgs ==
    <<"openclaw", "message", "send", "--channel", channel, "--target", target,
      "--message", "Progress notifier connected.", "--dry-run">>

\* The argument vector send_now / maybe_send build for one dispatch.
SendArgs(message, media) ==
    <<"openclaw", "message", "send", "--channel", channel, "--target", target,
      "--message", message>>
    \o (IF Truthy(media) THEN <<"--media", media>> ELSE <<>>)

\* The loop of _send_message that recovers the message from the arguments:
\* the element after the first "--message" that has a successor, else "".
ExtractMessage(args) ==
    LET hits == {i \in 1..Len(args) : args[i] = "--message" /\ i + 1 <= Len(args)}
    IN  IF hits = {} THEN ""
        ELSE args[(CHOOSE i \in hits : \A j \in hits : i <= j) + 1]

\* os.path.abspath(media_path): every plot path of the model is absolute and
\* normalised, and abspath returns such a path as it is.
AbsPath(p) == p

\* urllib.request.Request(url) raises ValueError("unknown url type") when the
\* URL has no scheme.
RequestRaises(url) == url = BadUrl

\* ------------------------------------------------------------- _selftest
\* The diagnostic _selftest prints for a probe that did not return 0.
ProbeDiag(outcome) ==
    CASE outcome = "unknown_channel" -> "channel_not_configured"
      [] outcome = "failed" -> "dry_run_failed"
      [] outcome = "exception" -> "cli_test_failed"
      [] OTHER -> "none"

\* The CLI block of _selftest with the return after a zero returncode missing.
ProbeCliNoReturn(u, e) ==
    IF ~cli_available
    THEN [done |-> FALSE, use_http |-> u, runs |-> <<>>, diags |-> <<>>,
          probe |-> "none", raised |-> FALSE, hung |-> FALSE]
    ELSE [done |-> FALSE, use_http |-> TRUE, runs |-> <<ProbeArgs>>,
          diags |-> IF e.probe = "ok" THEN <<>> ELSE <<ProbeDiag(e.probe)>>,
          probe |-> e.probe, raised |-> FALSE, hung |-> e.probe = "hang"]

\* The CLI block of _selftest with no exception handler around the probe.
ProbeCliUncaught(u, e) ==
    IF ~cli_available
    THEN [done |-> FALSE, use_http |-> u, runs |-> <<>>, diags |-> <<>>,
          probe |-> "none", raised |-> FALSE, hung |-> FALSE]
    ELSE IF e.probe = "ok"
    THEN [done |-> TRUE, use_http |-> u, runs |-> <<ProbeArgs>>,
          diags |-> <<>>, probe |-> e.probe, raised |-> FALSE, hung |-> FALSE]
    ELSE IF e.probe = "exception"
    THEN [done |-> FALSE, use_http |-> u, runs |-> <<ProbeArgs>>,
          diags |-> <<>>, probe |-> e.probe, raised |-> TRUE, hung |-> FALSE]
    ELSE [done |-> FALSE, use_http |-> TRUE, runs |-> <<ProbeArgs>>,
          diags |-> <<ProbeDiag(e.probe)>>, probe |-> e.probe,
          raised |-> FALSE, hung |-> e.probe = "hang"]

\* The `if self._cli_available:` block of _selftest: u is self._use_http on
\* entry.  The probe and the reading of its output sit in one try block
\* whose handler catches Exception, so no exception leaves the block.  The
\* result holds whether the method returned from inside the block (done),
\* self._use_http after it, the subprocess.run calls made, the diagnostics
\* printed, the probe outcome, whether an exception leaves the block and
\* whether it blocks for ever.
ProbeCli(u, e) ==
    IF ~cli_available
    THEN [done |-> FALSE, use_http |-> u, runs |-> <<>>, diags |-> <<>>,
          probe |-> "none", raised |-> FALSE, hung |-> FALSE]
    ELSE IF e.probe = "ok"
    THEN [done |-> TRUE, use_http |-> u, runs |-> <<ProbeArgs>>,
          diags |-> <<>>, probe |-> e.probe, raised |-> FALSE, hung |-> FALSE]
    ELSE IF e.probe = "hang"
    THEN [done |-> FALSE, use_http |-> u, runs |-> <<ProbeArgs>>,
          diags |-> <<>>, probe |-> e.probe, raised |-> FALSE, hung |-> TRUE]
    ELSE [done |-> FALSE, use_http |-> TRUE, runs |-> <<ProbeArgs>>,
          diags |-> <<ProbeDiag(e.probe)>>, probe |-> e.probe,
          raised |-> FALSE, hung |-> FALSE]

\* _selftest after its CLI block, whose result is c: the method is over when
\* the block returned; otherwise `if not self._cli_available` selects HTTP,
\* and the diagnostic of the HTTP evaluation is printed.
FallbackEval(c) ==
    IF c.done \/ c.raised \/ c.hung
    THEN [tested |-> TRUE, use_http |-> c.use_http, runs |-> c.runs,
          diags |-> c.diags, probe |-> c.probe, raised |-> c.raised,
          hung |-> c.hung]
    ELSE [tested |-> TRUE,
          use_http |-> IF ~cli_available THEN TRUE ELSE c.use_http,
          runs |-> c.runs,
          diags |-> c.diags
                    \o (IF cli_available /\ ~c.use_http THEN <<>>
                        ELSE IF Truthy(gateway_url) /\ Truthy(gateway_token)
                             THEN <<"using_http">>
                             ELSE <<"silent">>),
          probe |-> c.probe, raised |-> FALSE, hung |-> FALSE]

\* _selftest past its guard: u is self._use_http on entry; the result holds
\* self._tested and self._use_http on return, the subprocess.run calls made,
\* the diagnostics printed to stderr, the probe outcome observed, whether an
\* exception leaves the method and whether it blocks for ever.
SelftestBody(u, e) ==
    IF ~Truthy(channel) \/ ~Truthy(target)
    THEN [tested |-> TRUE, use_http |-> u, runs |-> <<>>,
          diags |-> <<"no_channel_target">>, probe |-> "none",
          raised |-> FALSE, hung |-> FALSE]
    ELSE FallbackEval(ProbeCli(u, e))

\* _selftest without its guard on self._tested.
SelftestNoGuard(t, u, e) == SelftestBody(u, e)

\* _selftest: returns at once when self._tested is already set.
Selftest(t, u, e) ==
    IF t
    THEN [tested |-> t, use_http |-> u, runs |-> <<>>, diags |-> <<>>,
          probe |-> "none", raised |-> FALSE, hung |-> FALSE]
    ELSE SelftestBody(u, e)

\* ------------------------------------------------------------- _send_http
\* _send_http: the POSTs attempted (payload and outcome) and whether an
\* exception leaves the method.  Request(...) is built outside the try block.
SendHttp(message, media_path, e) ==
    IF ~Truthy(gateway_url) \/ ~Truthy(gateway_token)
    THEN [posts |-> <<>>, raised |-> FALSE, http |-> "none"]
    ELSE IF RequestRaises(gateway_url)
    THEN [posts |-> <<>>, raised |-> TRUE, http |-> "none"]
    ELSE [posts |-> <<[url |-> gateway_url,
                       channel |-> channel,
                       target |-> target,
                       message |-> message,
                       mediaPath |-> IF Truthy(media_path) /\ e.isfile
                                     THEN AbsPath(media_path) ELSE None]>>,
          raised |-> FALSE, http |-> e.http]

\* ---------------------------------------------------------- _send_message
\* _send_message with a CLI send that falls back to _send_http when it
\* fails.
SendOverFallsBack(st, h, args, e) ==
    IF st.raised \/ st.hung
    THEN [tested |-> st.tested, use_http |-> st.use_http,
          runs |-> st.runs, posts |-> <<>>, diags |-> st.diags,
          raised |-> st.raised, selftest_raised |-> st.raised,
          hung |-> st.hung, probe |-> st.probe, run |-> "none",
          http |-> "none"]
    ELSE IF st.use_http
    THEN [tested |-> st.tested, use_http |-> st.use_http,
          runs |-> st.runs, posts |-> h.posts, diags |-> st.diags,
          raised |-> h.raised, selftest_raised |-> FALSE,
          hung |-> h.http = "hang", probe |-> st.probe,
          run |-> "none", http |-> h.http]
    ELSE [tested |-> st.tested, use_http |-> st.use_http,
          runs |-> Append(st.runs, args),
          posts |-> IF e.run \in {"nonzero", "exception"} THEN h.posts ELSE <<>>,
          diags |-> st.diags, raised |-> FALSE,
          selftest_raised |-> FALSE, hung |-> e.run = "hang",
          probe |-> st.probe, run |-> e.run, http |-> "none"]

\* _send_message after its self-test, whose result is st: the send over the
\* selected path, where h is what _send_http does when it is the path taken.
\* selftest_raised tells an exception that left _selftest from one that left
\* _send_http; hung tells that a blocking call of the dispatcher never came
\* back.
SendOver(st, h, args, e) ==
    IF st.raised \/ st.hung
    THEN [tested |-> st.tested, use_http |-> st.use_http,
          runs |-> st.runs, posts |-> <<>>, diags |-> st.diags,
          raised |-> st.raised, selftest_raised |-> st.raised,
          hung |-> st.hung, probe |-> st.probe, run |-> "none",
          http |-> "none"]
    ELSE IF st.use_http
    THEN [tested |-> st.tested, use_http |-> st.use_http,
          runs |-> st.runs, posts |-> h.posts, diags |-> st.diags,
          raised |-> h.raised, selftest_raised |-> FALSE,
          hung |-> h.http = "hang", probe |-> st.probe,
          run |-> "none", http |-> h.http]
    ELSE [tested |-> st.tested, use_http |-> st.use_http,
          runs |-> Append(st.runs, args), posts |-> <<>>,
          diags |-> st.diags, raised |-> FALSE,
          selftest_raised |-> FALSE, hung |-> e.run = "hang",
          probe |-> st.probe, run |-> e.run, http |-> "none"]

\* _send_message: runs the self-test, then sends over the selected path.
\* t, u are self._tested and self._use_http on entry.
SendMessage(args, media_path, t, u, e) ==
    SendOver(Selftest(t, u, e),
             SendHttp(ExtractMessage(args), media_path, e), args, e)

\* The effect of a call that reaches no dispatcher call.
NoEffect(t, u) ==
    [tested |-> t, use_http |-> u, runs |-> <<>>, posts |-> <<>>,
     diags |-> <<>>, raised |-> FALSE, selftest_raised |-> FALSE,
     hung |-> FALSE, probe |-> "none", run |-> "none", http |-> "none"]

\* The dispatcher calls of one public call, made in order; an exception that
\* leaves a dispatcher call ends the public call, and a dispatcher call that
\* never comes back keeps the public call from going on.
RECURSIVE Dispatch(_, _, _, _), DispatchRest(_, _, _)
Dispatch(reqs, t, u, e) ==
    IF reqs = <<>> THEN NoEffect(t, u)
    ELSE DispatchRest(SendMessage(reqs[1].args, reqs[1].media, t, u, e),
                      Tail(reqs), e)

\* The effect of dispatcher call r followed by the later ones.
Then(r, rest) ==
    [tested |-> rest.tested, use_http |-> rest.use_http,
     runs |-> r.runs \o rest.runs,
     posts |-> r.posts \o rest.posts,
     diags |-> r.diags \o rest.diags,
     raised |-> rest.raised,
     selftest_raised |-> rest.selftest_raised,
     hung |-> rest.hung,
     probe |-> IF r.probe # "none" THEN r.probe ELSE rest.probe,
     run |-> IF rest.run # "none" THEN rest.run ELSE r.run,
     http |-> IF rest.http # "none" THEN rest.http ELSE r.http]

\* The dispatcher calls after the first one, whose effect is r.
DispatchRest(r, reqs, e) ==
    IF r.raised \/ r.hung THEN r
    ELSE Then(r, Dispatch(reqs, r.tested, r.use_http, e))

\* A plan that leaves the timestamps alone and makes no dispatcher call.
NoPlan ==
    [last_sent |-> last_sent, last_plot_sent |-> last_plot_sent, reqs |-> <<>>]

\* One dispatcher call: _send_message(args, media_path=media).
Req(message, media) == [args |-> SendArgs(message, media), media |-> media]

\* -------------------------------------------------------------- send_now
\* send_now that also resets the throttle timestamps.
SendNowPlanResets(message, plot_path) ==
    IF ~Truthy(channel) \/ ~Truthy(target) THEN NoPlan
    ELSE [last_sent |-> 0, last_plot_sent |-> 0,
          reqs |-> <<Req(message, plot_path)>>]

\* send_now without its test of channel and target.
SendNowPlanNoGuard(message, plot_path) ==
    [last_sent |-> last_sent, last_plot_sent |-> last_plot_sent,
     reqs |-> <<Req(message, plot_path)>>]

\* send_now up to its dispatcher call: the timestamps it leaves (it touches
\* neither) and the dispatcher calls it makes (none without channel or target).
SendNowPlan(message, plot_path) ==
    IF ~Truthy(channel) \/ ~Truthy(target) THEN NoPlan
    ELSE [last_sent |-> last_sent, last_plot_sent |-> last_plot_sent,
          reqs |-> <<Req(message, plot_path)>>]

\* ------------------------------------------------------------- maybe_send
\* send_text of maybe_send without the comparison with last_sent.
SendTextAlways(now) == TRUE

\* send_text of maybe_send with a strict comparison.
SendTextStrict(now) == now - last_sent > interval_sec

\* send_text of maybe_send.
SendText(now) == now - last_sent >= interval_sec

\* send_plot of maybe_send.
SendPlot(now, plot_path) ==
    Truthy(plot_path) /\ now - last_plot_sent >= plot_interval_sec

\* The branches of maybe_send with the combined branch split into a text
\* dispatch followed by a plot dispatch.
ThrottlePlanSplit(message, plot_path, now) ==
    LET send_text == SendText(now)
        send_plot == SendPlot(now, plot_path)
    IN  [last_sent |-> IF send_text THEN now ELSE last_sent,
         last_plot_sent |-> IF send_plot THEN now ELSE last_plot_sent,
         reqs |-> (IF send_text THEN <<Req(message, None)>> ELSE <<>>)
                  \o (IF send_plot THEN <<Req(message, plot_path)>> ELSE <<>>)]

\* The branches of maybe_send with the plot-only branch marking the text as
\* sent too.
ThrottlePlanPlotMarksText(message, plot_path, now) ==
    LET send_text == SendText(now)
        send_plot == SendPlot(now, plot_path)
    IN  IF send_text /\ ~send_plot
        THEN [last_sent |-> now, last_plot_sent |-> last_plot_sent,
              reqs |-> <<Req(message, None)>>]
        ELSE IF send_plot
        THEN [last_sent |-> now, last_plot_sent |-> now,
              reqs |-> <<Req(message, plot_path)>>]
        ELSE NoPlan

\* The branches of maybe_send past its test of channel and target: the
\* timestamps it leaves and the dispatcher calls it makes.
ThrottlePlan(message, plot_path, now) ==
    LET send_text == SendText(now)
        send_plot == SendPlot(now, plot_path)
    IN  IF send_text /\ ~send_plot
        THEN [last_sent |-> now, last_plot_sent |-> last_plot_sent,
              reqs |-> <<Req(message, None)>>]
        ELSE IF send_text /\ send_plot
        THEN [last_sent |-> now, last_plot_sent |-> now,
              reqs |-> <<Req(message, plot_path)>>]
        ELSE IF send_plot
        THEN [last_sent |-> last_sent, last_plot_sent |-> now,
              reqs |-> <<Req(message, plot_path)>>]
        ELSE NoPlan

\* maybe_send up to its dispatcher calls.
MaybeSendPlan(message, plot_path, now) ==
    IF ~Truthy(channel) \/ ~Truthy(target) THEN NoPlan
    ELSE ThrottlePlan(message, plot_path, now)

\* ------------------------------------------------------------ observation
\* The record of a notifier on which no call was made yet.
NoCall ==
    [op |-> "none", now |-> 0, message |-> "", plot |-> None,
     dispatches |-> <<>>, runs |-> <<>>, posts |-> <<>>, diags |-> <<>>,
     raised |-> FALSE, selftest_raised |-> FALSE, returned |-> TRUE,
     probe |-> "none", run |-> "none", http |-> "none"]

\* What one public call did: its inputs, its dispatcher calls and what they
\* did outside the notifier; returned is FALSE when the call is still blocked
\* in an external call that never comes back.
CallRecord(op, now, message, plot_path, reqs, eff) ==
    [op |-> op, now |-> now, message |-> message, plot |-> plot_path,
     dispatches |-> reqs, runs |-> eff.runs, posts |-> eff.posts,
     diags |-> eff.diags, raised |-> eff.raised,
     selftest_raised |-> eff.selftest_raised, returned |-> ~eff.hung,
     probe |-> eff.probe, run |-> eff.run, http |-> eff.http]

\* What is kept of the call before the latest one.
Summary(c) ==
    [op |-> c.op, now |-> c.now, plot |-> c.plot, dispatches |-> c.dispatches]

\* An argument vector of the dry-run probe.
IsProbe(args) == \E i \in 1..Len(args) : args[i] = "--dry-run"

\* The number of dry-run probes among the subprocess.run calls of one call.
ProbeCount(runs) == Cardinality({i \in 1..Len(runs) : IsProbe(runs[i])})

\* The environment answers one public call can observe, each listed once:
\* an answer the call does not ask for is fixed.  Whether the dispatching
\* run, the POST and the file test are reached depends on the probe alone.
Asked(e, reqs, eff) ==
    /\ eff.probe = "none" => e.probe = "ok"
    /\ eff.run = "none" => e.run = "ok"
    /\ eff.http = "none" => e.http = "ok"
    /\ (eff.posts = <<>> \/ \A i \in 1..Len(reqs) : ~Truthy(reqs[i].media))
          => ~e.isfile

EnvsFor(reqs, t, u) ==
    UNION {
        LET e0 == [probe |-> p, run |-> "ok", http |-> "ok", isfile |-> FALSE]
            eff0 == Dispatch(reqs, t, u, e0)
        IN  IF eff0.probe = "none" /\ p # "ok" THEN {}
            ELSE [probe : {p},
                  run : IF eff0.run = "none" THEN {"ok"} ELSE RunOutcomes,
                  http : IF eff0.http = "none" THEN {"ok"} ELSE HttpOutcomes,
                  isfile : IF Asked([e0 EXCEPT !.isfile = TRUE], reqs, eff0)
                           THEN BOOLEAN ELSE {FALSE}]
        : p \in ProbeOutcomes }

\* ----------------------------------------------------------------- __init__
\* ProgressNotifier.__init__: interval_sec and plot_interval_sec from the
\* arguments, the rest from the environment variables and shutil.which.
Init ==
    /\ interval_sec \in Intervals
    /\ \E given \in BOOLEAN, arg \in Intervals :
          plot_interval_sec = IF given THEN arg ELSE interval_sec
    /\ last_sent = 0
    /\ last_plot_sent = 0
    /\ channel \in Channels
    /\ target \in Targets
    /\ gateway_url \in GatewayUrls
    /\ gateway_token \in GatewayTokens
    /\ tested = FALSE
    /\ use_http = FALSE
    /\ cli_available \in BOOLEAN
    /\ calls = 0
    /\ probes = 0
    /\ probed = "none"
    /\ last = NoCall
    /\ prev = Summary(NoCall)
    /\ frames = NoFrames

\* ------------------------------------------------------------------ actions
\* What a public call leaves in the notifier when the timestamps are written
\* after the dispatcher calls, and only when one of them delivered.
SettleOnSuccess(plan, eff) ==
    /\ last_sent' = IF eff.run = "ok" \/ (eff.http = "ok" /\ eff.posts # <<>>)
                    THEN plan.last_sent ELSE last_sent
    /\ last_plot_sent' = IF eff.run = "ok" \/ (eff.http = "ok" /\ eff.posts # <<>>)
                         THEN plan.last_plot_sent ELSE last_plot_sent
    /\ tested' = eff.tested
    /\ use_http' = eff.use_http
    /\ probes' = probes + ProbeCount(eff.runs)
    /\ probed' = IF eff.probe # "none" THEN eff.probe ELSE probed
    /\ prev' = Summary(last)
    /\ calls' = calls + 1
    /\ UNCHANGED <<config, frames>>

\* What a public call with the given plan and dispatcher effect leaves in
\* the notifier: the timestamps are written first, then the dispatcher calls
\* are made.
Settle(plan, eff) ==
    /\ last_sent' = plan.last_sent
    /\ last_plot_sent' = plan.last_plot_sent
    /\ tested' = eff.tested
    /\ use_http' = eff.use_http
    /\ probes' = probes + ProbeCount(eff.runs)
    /\ probed' = IF eff.probe # "none" THEN eff.probe ELSE probed
    /\ prev' = Summary(last)
    /\ calls' = calls + 1
    /\ UNCHANGED <<config, frames>>

\* A public call whose plan (timestamps and dispatcher calls) is given.
Perform(op, now, message, plot_path, plan) ==
    \E e \in EnvsFor(plan.reqs, tested, use_http) :
        LET eff == Dispatch(plan.reqs, tested, use_http, e)
        IN  /\ Asked(e, plan.reqs, eff)
            /\ Settle(plan, eff)
            /\ last' = CallRecord(op, now, message, plot_path, plan.reqs, eff)

\* One call of send_now(message, plot_path).  send_now does not read the
\* clock: the call is recorded with reading 0.  The single caller makes a
\* call only after its previous call returned.
SendNow ==
    /\ calls < MaxCalls
    /\ last.returned
    /\ \E message \in Messages, plot_path \in PlotPaths :
          Perform("send_now", 0, message, plot_path,
                  SendNowPlan(message, plot_path))

\* One call of maybe_send(message, plot_path); now is what time.time() returns.
MaybeSend ==
    /\ calls < MaxCalls
    /\ last.returned
    /\ \E message \in Messages, plot_path \in PlotPaths, now \in Times :
          Perform("maybe_send", now, message, plot_path,
                  MaybeSendPlan(message, plot_path, now))

Next == SendNow \/ MaybeSend

Spec == Init /\ [][Next]_vars

\* ------------------------------------------------------------------- wrap
\* wrap(argv, label) is imported by tests/test_progress_notifier.py but its
\* code is not part of the sources: it is modelled from the specification
\* (section 4.5) and from what TestWrap fixes.

\* Command vectors given to wrap.
Argvs == {<<>>, <<"train.sh">>}
\* The optional label given to wrap.
Labels == {None, "job"}
\* Exit codes of the wrapped command.
ExitCodes == {0, 1, 42}
\* Signals that terminate the wrapped command.
Signals == {9, 15}
\* How the wrapped command ends: it exits with code n, it is terminated by
\* signal n, or it is not found.
ChildOutcomes ==
    [kind : {"exit"}, n : ExitCodes] \cup [kind : {"signal"}, n : Signals]
    \cup {[kind |-> "not_found", n |-> 0]}
\* No command was spawned.
NoChild == [kind |-> "none", n |-> 0]

\* What subprocess.run(argv) reports for the wrapped command: returncode is
\* the exit code, or minus the signal number; FileNotFoundError is raised
\* when the command is not found.
SubprocessRun(child) ==
    [found |-> child.kind # "not_found",
     returncode |-> IF child.kind = "signal" THEN 0 - child.n ELSE child.n]

\* The status wrap returns, with a signal's negative returncode returned as
\* it is.
WrapStatusRaw(argv, child) ==
    IF argv = <<>> THEN 1
    ELSE IF ~SubprocessRun(child).found THEN 127
    ELSE SubprocessRun(child).returncode

\* The status wrap returns.
WrapStatus(argv, child) ==
    IF argv = <<>> THEN 1
    ELSE LET r == SubprocessRun(child)
         IN  IF ~r.found THEN 127
             ELSE IF r.returncode < 0 THEN 128 + (0 - r.returncode)
             ELSE r.returncode

\* The text of the completion notification: success or failure, and the
\* label when one is given (the status number printed in the text is left
\* out).
WrapMessage(label, status) ==
    IF status = 0
    THEN IF Truthy(label) THEN "job: finished" ELSE "finished"
    ELSE IF Truthy(label) THEN "job: failed" ELSE "failed"

\* The notifications of wrap, with one sent before the command starts too.
WrapPlanStartFinish(argv, label, child) ==
    IF argv = <<>> THEN NoPlan
    ELSE LET p == SendNowPlan(WrapMessage(label, WrapStatus(argv, child)), None)
         IN  [p EXCEPT !.reqs = p.reqs \o p.reqs]

\* The notifications of wrap: none for an empty command vector, else one
\* send_now call with the completion message.
WrapPlan(argv, label, child) ==
    IF argv = <<>> THEN NoPlan
    ELSE SendNowPlan(WrapMessage(label, WrapStatus(argv, child)), None)

\* What one wrap call did: the record of its send_now call, the command, how
\* it ended, the status returned and the order of the steps.  An exception
\* that leaves send_now is caught by wrap (notify_raised), so none leaves
\* wrap.
WrapRecord(argv, label, child, reqs, eff) ==
    [op |-> "wrap", now |-> 0,
     message |-> IF argv = <<>> THEN ""
                 ELSE WrapMessage(label, WrapStatus(argv, child)),
     plot |-> None, dispatches |-> reqs, runs |-> eff.runs,
     posts |-> eff.posts, diags |-> eff.diags, raised |-> FALSE,
     selftest_raised |-> eff.selftest_raised, returned |-> ~eff.hung,
     probe |-> eff.probe, run |-> eff.run, http |-> eff.http,
     argv |-> argv, label |-> label,
     child |-> IF argv = <<>> THEN NoChild ELSE child,
     status |-> WrapStatus(argv, child),
     events |-> IF argv = <<>> THEN <<>> ELSE <<"child_done", "send_now">>,
     notify_raised |-> eff.raised]

\* One call of wrap(argv, label) on the notifier.
Wrap ==
    /\ calls < MaxCalls
    /\ last.returned
    /\ \E argv \in Argvs, label \in Labels, child \in ChildOutcomes :
          LET plan == WrapPlan(argv, label, child)
          IN  \E e \in EnvsFor(plan.reqs, tested, use_http) :
                  LET eff == Dispatch(plan.reqs, tested, use_http, e)
                  IN  /\ Asked(e, plan.reqs, eff)
                      /\ Settle(plan, eff)
                      /\ last' = WrapRecord(argv, label, child, plan.reqs, eff)

NextWrap == Wrap

SpecWrap == Init /\ [][NextWrap]_vars

\* ------------------------------------------------------------------- main
\* The command-line entry point: one process that parses sys.argv, builds a
\* notifier from the environment and calls maybe_send once.

\* sys.argv[1:]: nothing, a message word, a --plot flag with or without its
\* value.
CliArgs ==
    {<<>>, <<"msg">>, <<"--plot">>, <<"msg", "--plot">>,
     <<"msg", "--plot", "/tmp/p.png">>, <<"--plot", "/tmp/p.png">>}
\* Values of OPENCLAW_PROGRESS_INTERVAL_SEC and
\* OPENCLAW_PROGRESS_PLOT_INTERVAL_SEC: unset, decimal numbers, and a value
\* that is not a number.
IntervalEnvs == {None, "0", "1", "5m"}
\* The default of OPENCLAW_PROGRESS_INTERVAL_SEC.
DefaultIntervalEnv == "300"

\* _env(name, default) for a variable whose value is v.
EnvOr(v, default) == IF Truthy(v) THEN v ELSE default

\* int(s): the number a decimal string denotes; raises ValueError for any
\* other string.
IntRaises(s) == s \notin {"0", "1", "300"}
IntOf(s) ==
    CASE s = "0" -> 0
      [] s = "1" -> 1
      [] s = "300" -> 300

\* Index of the first "--plot" in args, 0 when there is none (args.index).
PlotIndex(args) ==
    IF \E i \in 1..Len(args) : args[i] = "--plot"
    THEN CHOOSE i \in 1..Len(args) :
            args[i] = "--plot" /\ \A j \in 1..(i - 1) : args[j] # "--plot"
    ELSE 0

\* " ".join(args) for at most one word.
Join(args) == IF args = <<>> THEN "" ELSE args[1]

\* The parse of sys.argv by main: a usage error, or the message and the plot
\* path.
ParseArgs(args) ==
    LET idx == PlotIndex(args)
    IN  IF args = <<>> THEN [usage |-> TRUE, message |-> "", plot |-> None]
        ELSE IF idx = 0
        THEN [usage |-> FALSE, message |-> Join(args), plot |-> None]
        ELSE IF idx + 1 > Len(args)
        THEN [usage |-> TRUE, message |-> "", plot |-> None]
        ELSE [usage |-> FALSE,
              message |-> Join(SubSeq(args, 1, idx - 1)
                               \o SubSeq(args, idx + 2, Len(args))),
              plot |-> args[idx + 1]]

\* What the process did so far: the record of its maybe_send call, sys.argv,
\* whether the process has exited and its exit status.  An exception that
\* leaves main ends the process with a traceback and status 1.
MainRecord(op, now, args, parsed, reqs, eff, exited, exit) ==
    [op |-> op, now |-> now, message |-> parsed.message, plot |-> parsed.plot,
     dispatches |-> reqs, runs |-> eff.runs, posts |-> eff.posts,
     diags |-> eff.diags, raised |-> eff.raised,
     selftest_raised |-> eff.selftest_raised, returned |-> ~eff.hung,
     probe |-> eff.probe, run |-> eff.run, http |-> eff.http,
     argv |-> args, exited |-> exited, exit |-> exit]

\* The process before main runs: the notifier is not built yet.
InitMain ==
    /\ interval_sec = 0
    /\ plot_interval_sec = 0
    /\ last_sent = 0
    /\ last_plot_sent = 0
    /\ channel \in Channels
    /\ target \in Targets
    /\ gateway_url \in GatewayUrls
    /\ gateway_token \in GatewayTokens
    /\ tested = FALSE
    /\ use_http = FALSE
    /\ cli_available \in BOOLEAN
    /\ calls = 0
    /\ probes = 0
    /\ probed = "none"
    /\ last = NoCall
    /\ prev = Summary(NoCall)
    /\ frames = NoFrames

\* main up to the construction of the notifier: the usage checks, then
\* ProgressNotifier(interval_sec=int(...), plot_interval_sec=int(...)).
MainStart ==
    /\ last.op = "none"
    /\ \E args \in CliArgs, env_interval \in IntervalEnvs,
          env_plot_interval \in IntervalEnvs :
          LET parsed == ParseArgs(args)
              i == EnvOr(env_interval, DefaultIntervalEnv)
              pi == EnvOr(env_plot_interval, i)
              raises == IntRaises(i) \/ IntRaises(pi)
              ends == parsed.usage \/ raises
          IN  /\ interval_sec' = IF ends THEN interval_sec ELSE IntOf(i)
              /\ plot_interval_sec' = IF ends THEN plot_interval_sec ELSE IntOf(pi)
              /\ last' = MainRecord("main_start", 0, args, parsed, <<>>,
                                    [NoEffect(tested, use_http)
                                         EXCEPT !.raised = ~parsed.usage /\ raises],
                                    ends, IF ends THEN 1 ELSE 0)
              /\ UNCHANGED <<last_sent, last_plot_sent, channel, target,
                             gateway_url, gateway_token, tested, use_http,
                             cli_available, calls, probes, probed, prev,
                             frames>>

\* notifier.maybe_send(message, plot_path=plot_path), then the end of the
\* process.
MainSend ==
    /\ last.op = "main_start"
    /\ ~last.exited
    /\ \E now \in Times :
          LET plan == MaybeSendPlan(last.message, last.plot, now)
          IN  \E e \in EnvsFor(plan.reqs, tested, use_http) :
                  LET eff == Dispatch(plan.reqs, tested, use_http, e)
                  IN  /\ Asked(e, plan.reqs, eff)
                      /\ Settle(plan, eff)
                      /\ last' = MainRecord("main", now, last.argv,
                                            [message |-> last.message,
                                             plot |-> last.plot],
                                            plan.reqs, eff, ~eff.hung,
                                            IF eff.raised THEN 1 ELSE 0)

NextMain == MainStart \/ MainSend

SpecMain == InitMain /\ [][NextMain]_vars

\* -------------------------------------------------- _detect_channel_type
\* _detect_channel_type(channel) is imported by
\* tests/test_progress_notifier.py but its code is not part of the sources:
\* it is modelled from the specification (section 4.6) and from what
\* TestChannelDetection fixes.

\* Channel arguments: absent, the six named channels and an unknown one.
ChannelNames ==
    {None, "telegram", "discord", "slack", "whatsapp", "signal", "imessage",
     "somenewthing"}

\* The classification with the plain style as the default.
DetectChannelTypePlainDefault(c) ==
    CASE c = "telegram" -> "table"
      [] c \in {"discord", "slack", "whatsapp"} -> "rich"
      [] OTHER -> "plain"

\* _detect_channel_type(channel): the static classification table.
DetectChannelType(c) ==
    CASE c = "telegram" -> "table"
      [] c \in {"discord", "slack", "whatsapp"} -> "rich"
      [] c \in {"signal", "imessage"} -> "plain"
      [] OTHER -> "rich"

\* One call of _detect_channel_type(c): it reads and writes nothing of the
\* notifier; the call and its result are recorded.
Detect ==
    /\ calls < MaxCalls
    /\ \E c \in ChannelNames :
          last' = [op |-> "detect", now |-> 0, plot |-> None,
                   dispatches |-> <<>>, returned |-> TRUE,
                   arg |-> c, style |-> DetectChannelType(c)]
    /\ prev' = Summary(last)
    /\ calls' = calls + 1
    /\ UNCHANGED <<config, last_sent, last_plot_sent, tested, use_http,
                   probes, probed, frames>>

NextFormat == Detect

SpecFormat == Init /\ [][NextFormat]_vars

\* ------------------------------------------------- flag-like configuration
\* Channel, target and message are free strings: nothing keeps them from
\* being spelled like an option of the CLI.
FlagLike == "--message"

\* A notifier whose channel or target may be spelled like an option, with
\* gateway URL and token set so that the HTTP path can deliver.
InitFlags ==
    /\ interval_sec \in Intervals
    /\ plot_interval_sec = interval_sec
    /\ last_sent = 0
    /\ last_plot_sent = 0
    /\ channel \in {"discord", FlagLike}
    /\ target \in {"channel:123", FlagLike}
    /\ gateway_url = GoodUrl
    /\ gateway_token = "tok"
    /\ tested = FALSE
    /\ use_http = FALSE
    /\ cli_available \in BOOLEAN
    /\ calls = 0
    /\ probes = 0
    /\ probed = "none"
    /\ last = NoCall
    /\ prev = Summary(NoCall)
    /\ frames = NoFrames

\* One call of send_now whose message is spelled like an option.
SendNowFlagLike ==
    /\ calls < MaxCalls
    /\ last.returned
    /\ \E plot_path \in PlotPaths :
          Perform("send_now", 0, FlagLike, plot_path,
                  SendNowPlan(FlagLike, plot_path))

NextFlags == SendNow \/ MaybeSend \/ SendNowFlagLike

SpecFlags == InitFlags /\ [][NextFlags]_vars

\* ------------------------------------------------------- shared notifier
\* Two callers inside maybe_send(message) on one notifier, with no lock: the
\* steps of a call interleave with the steps of the other.  Channel and
\* target are set, and no plot path is given.

\* The guard of _selftest with its test of self._tested missing.
SelftestGuardNever(t) == FALSE

\* The guard of _selftest: the method returns at once when self._tested is
\* set.
SelftestGuard(t) == t

\* The frame is inside a call.
InProgress(f) == f.pc \notin {"idle", "done"}

InitShared ==
    /\ interval_sec \in Intervals
    /\ plot_interval_sec = interval_sec
    /\ last_sent = 0
    /\ last_plot_sent = 0
    /\ channel = "discord"
    /\ target = "channel:123"
    /\ gateway_url \in {None, GoodUrl}
    /\ gateway_token = "tok"
    /\ tested = FALSE
    /\ use_http = FALSE
    /\ cli_available \in BOOLEAN
    /\ calls = 0
    /\ probes = 0
    /\ probed = "none"
    /\ last = NoCall
    /\ prev = Summary(NoCall)
    /\ frames = NoFrames

\* Caller c enters maybe_send: it reads the clock and last_sent and computes
\* send_text; with send_text false the call is over.
Begin(c) ==
    /\ frames[c].pc = "idle"
    /\ \E now \in Times :
          /\ frames' = [d \in Callers |->
                           IF d = c
                           THEN [pc |-> IF SendText(now) THEN "write" ELSE "done",
                                 now |-> now, path |-> "none",
                                 alone |-> \A o \in Callers \ {c} :
                                               ~InProgress(frames[o]),
                                 early |-> FALSE]
                           ELSE IF InProgress(frames[d])
                           THEN [frames[d] EXCEPT !.alone = FALSE]
                           ELSE frames[d]]
          /\ calls' = IF SendText(now) THEN calls ELSE calls + 1
    /\ UNCHANGED <<config, last_sent, last_plot_sent, tested, use_http,
                   probes, probed, last, prev>>

\* self.last_sent = now.
Write(c) ==
    /\ frames[c].pc = "write"
    /\ last_sent' = frames[c].now
    /\ frames' = [frames EXCEPT ![c].pc = "check"]
    /\ UNCHANGED <<config, last_plot_sent, tested, use_http, calls, probes,
                   probed, last, prev>>

\* _send_message enters _selftest: `if self._tested: return`.
Check(c) ==
    /\ frames[c].pc = "check"
    /\ frames' = [frames EXCEPT ![c].pc =
                      IF SelftestGuard(tested) THEN "send" ELSE "set"]
    /\ UNCHANGED <<config, last_sent, last_plot_sent, tested, use_http,
                   calls, probes, probed, last, prev>>

\* self._tested = True.
SetTested(c) ==
    /\ frames[c].pc = "set"
    /\ tested' = TRUE
    /\ frames' = [frames EXCEPT ![c].pc = "probe"]
    /\ UNCHANGED <<config, last_sent, last_plot_sent, use_http, calls,
                   probes, probed, last, prev>>

\* The rest of _selftest: the dry-run probe and the selection of the path.
Probe(c) ==
    /\ frames[c].pc = "probe"
    /\ \E p \in ProbeOutcomes :
          LET st == SelftestBody(use_http, [probe |-> p, run |-> "ok",
                                            http |-> "ok", isfile |-> FALSE])
          IN  /\ (st.probe = "none" => p = "ok")
              /\ use_http' = st.use_http
              /\ probes' = probes + ProbeCount(st.runs)
              /\ probed' = IF st.probe # "none" THEN st.probe ELSE probed
    /\ frames' = [frames EXCEPT ![c].pc = "send"]
    /\ UNCHANGED <<config, last_sent, last_plot_sent, tested, calls, last,
                   prev>>

\* _send_message after _selftest: the send over the path self._use_http
\* gives at this moment ("off" when _send_http sends nothing), and the end
\* of the call.
Send(c) ==
    /\ frames[c].pc = "send"
    /\ frames' = [frames EXCEPT
                    ![c].pc = "done",
                    ![c].path = IF ~use_http THEN "cli"
                                ELSE IF Truthy(gateway_url) /\ Truthy(gateway_token)
                                THEN "http" ELSE "off",
                    ![c].early = /\ ~use_http
                                 /\ \E o \in Callers \ {c} :
                                       frames[o].pc = "probe"]
    /\ calls' = calls + 1
    /\ UNCHANGED <<config, last_sent, last_plot_sent, tested, use_http,
                   probes, probed, last, prev>>

NextShared ==
    \E c \in Callers :
        Begin(c) \/ Write(c) \/ Check(c) \/ SetTested(c) \/ Probe(c) \/ Send(c)

SpecShared == InitShared /\ [][NextShared]_vars

\* ================================================================= claims
\* Channel and target are both configured.
Configured == Truthy(channel) /\ Truthy(target)

\* The argument vector carries value v right after flag f.
Carries(args, f, v) ==
    \E i \in 1..(Len(args) - 1) : args[i] = f /\ args[i + 1] = v

\* |a - b|
Dist(a, b) == IF a >= b THEN a - b ELSE b - a

\* C1: on a notifier whose channel or target is absent, no call of send_now or
\* maybe_send, with or without a plot and at any clock reading, makes a
\* dispatch attempt: no dispatcher call, no subprocess.run (probe or send) and
\* no HTTP POST.
C1_NoDispatchWithoutConfig ==
    ~Configured =>
        /\ last.dispatches = <<>> /\ last.runs = <<>> /\ last.posts = <<>>
        /\ prev.dispatches = <<>>
        /\ probes = 0

\* C1 witness: an unconfigured notifier after a send_now and a maybe_send with
\* a plot, made when the text interval had elapsed.
C1_Witness ==
    /\ ~Configured /\ calls = 2
    /\ prev.op = "send_now" /\ last.op = "maybe_send"
    /\ Truthy(last.plot) /\ last.now >= interval_sec
    /\ last.now >= plot_interval_sec

\* Exactly two calls were made on a configured notifier, both maybe_send.
TwoMaybeSends ==
    /\ Configured /\ calls = 2
    /\ prev.op = "maybe_send" /\ last.op = "maybe_send"

\* C2: on a new configured notifier whose text and plot interval are both
\* I > 0, two maybe_send calls whose clock readings are less than I apart make
\* exactly one dispatch: the first call dispatches, the second is suppressed.
C2_TwoCallsWithinIntervalOneDispatch ==
    (/\ TwoMaybeSends
     /\ interval_sec > 0 /\ plot_interval_sec = interval_sec
     /\ Dist(last.now, prev.now) < interval_sec)
    => /\ Len(prev.dispatches) = 1
       /\ Len(last.dispatches) = 0

\* C3: with interval 0 on a configured notifier, every maybe_send call makes a
\* dispatch.
C3_IntervalZeroAlwaysDispatches ==
    (Configured /\ interval_sec = 0 /\ last.op = "maybe_send")
    => Len(last.dispatches) >= 1

\* C4: with text interval 0 and a plot interval larger than the time between
\* the calls, two successive maybe_send calls with a plot path on a new
\* notifier make exactly two dispatches, the first with the attachment and
\* the second without.
C4_PlotThrottledSeparately ==
    (/\ TwoMaybeSends
     /\ interval_sec = 0
     /\ Truthy(prev.plot) /\ Truthy(last.plot)
     /\ Dist(last.now, prev.now) < plot_interval_sec)
    => /\ Len(prev.dispatches) = 1 /\ Len(last.dispatches) = 1
       /\ prev.dispatches[1].media = prev.plot
       /\ Carries(prev.dispatches[1].args, "--media", prev.plot)
       /\ last.dispatches[1].media = None
       /\ ~Carries(last.dispatches[1].args, "--media", last.plot)

\* Text is due at clock reading now (spec 4.4), on the timestamps before the
\* call.
TextDue(now) == now - last_sent >= interval_sec

\* The plot is due at clock reading now (spec 4.4), on the timestamps before
\* the call.
PlotDue(now, plot_path) ==
    Truthy(plot_path) /\ now - last_plot_sent >= plot_interval_sec

\* C5: no maybe_send call makes two dispatches; and a maybe_send call in which
\* both text and plot are due makes exactly one, which carries the message
\* and the attachment, and sets both timestamps to the call's clock reading.
C5_CombinedDueOneDispatch ==
    [][(calls' = calls + 1 /\ last'.op = "maybe_send")
       => /\ Len(last'.dispatches) <= 1
          /\ (Configured /\ TextDue(last'.now) /\ PlotDue(last'.now, last'.plot))
             => /\ Len(last'.dispatches) = 1
                /\ Carries(last'.dispatches[1].args, "--message", last'.message)
                /\ Carries(last'.dispatches[1].args, "--media", last'.plot)
                /\ last'.dispatches[1].media = last'.plot
                /\ last_sent' = last'.now
                /\ last_plot_sent' = last'.now]_vars

\* C5 witness: a second maybe_send call in which text and plot were both due
\* again, after a first one that set the timestamps.
C5_Witness ==
    /\ TwoMaybeSends
    /\ Len(prev.dispatches) = 1 /\ prev.now > 0
    /\ Len(last.dispatches) = 1 /\ Truthy(last.dispatches[1].media)
    /\ interval_sec > 0 /\ plot_interval_sec > 0
    /\ last.now > prev.now
    /\ last_sent = last.now /\ last_plot_sent = last.now

\* C6: a dispatch never raises to its caller: whatever the configuration and
\* whatever fails outside (spawn error, transport error, timeout, malformed
\* gateway URL), send_now and maybe_send return normally.
C6_DispatchNeverRaises == ~last.raised

\* C7: a send_now call on a configured notifier, the first call on a new
\* instance included, makes exactly one subprocess.run invocation, and that
\* invocation carries the channel, the message and, when a plot path is
\* given, the media path.
C7_SendNowRunsCommandOnce ==
    (Configured /\ last.op = "send_now")
    => /\ Len(last.runs) = 1
       /\ Carries(last.runs[1], "--channel", channel)
       /\ Carries(last.runs[1], "--message", last.message)
       /\ Truthy(last.plot) => Carries(last.runs[1], "--media", last.plot)

\* C8: send_now bypasses throttling: on a configured notifier every send_now
\* call makes its dispatcher call, with the message, whatever the timestamps
\* are, and no send_now call changes last_sent or last_plot_sent.
C8_SendNowBypassesThrottle ==
    [][(calls' = calls + 1 /\ last'.op = "send_now")
       => /\ last_sent' = last_sent
          /\ last_plot_sent' = last_plot_sent
          /\ Configured
             => /\ Len(last'.dispatches) = 1
                /\ Carries(last'.dispatches[1].args, "--message", last'.message)
                /\ last'.dispatches[1].media = last'.plot]_vars

\* C8 witness: a send_now call that dispatched right after a maybe_send call
\* had dispatched and opened a throttle window, and left the timestamps that
\* call had set.
C8_Witness ==
    /\ Configured /\ calls = 2 /\ interval_sec > 0
    /\ prev.op = "maybe_send" /\ Len(prev.dispatches) = 1 /\ prev.now > 0
    /\ last.op = "send_now" /\ Len(last.dispatches) = 1
    /\ last_sent = prev.now /\ last_plot_sent = 0

\* C9: the self-test runs at most once per notifier: the dry-run probe is
\* issued at most once over all calls, diagnostics are printed only by the
\* call that makes the first dispatch, and once the notifier is tested no
\* call probes again or changes tested or use_http.
C9_SelftestAtMostOnce ==
    /\ [](probes <= 1)
    /\ [][(calls' = calls + 1)
          => /\ tested => /\ tested' /\ use_http' = use_http
                          /\ probes' = probes
                          /\ ProbeCount(last'.runs) = 0
                          /\ last'.diags = <<>>
             /\ last'.diags # <<>> => (~tested /\ tested' /\ last'.dispatches # <<>>)
             /\ probes' # probes => (~tested /\ tested' /\ last'.dispatches # <<>>)]_vars

\* C9 witness: two dispatching calls, the first of which probed, failed and
\* printed its diagnostics, the second of which neither probed nor printed.
C9_Witness ==
    /\ calls = 2 /\ tested /\ use_http /\ probes = 1
    /\ Len(prev.dispatches) = 1
    /\ Len(last.dispatches) = 1
    /\ ProbeCount(last.runs) = 0 /\ last.diags = <<>>

\* C10: on a notifier whose channel or target is absent, the first send
\* attempt runs the self-test, which prints one diagnostic and issues no
\* probe; later sends print no further diagnostic.
C10_UnconfiguredDiagnosticOnce ==
    (~Configured /\ calls >= 1)
    => /\ tested
       /\ probes = 0
       /\ calls = 1 => last.diags = <<"no_channel_target">>
       /\ calls > 1 => last.diags = <<>>

\* The subprocess.run calls of one public call that send (the dry-run probe
\* left out).
CliSends(runs) == SelectSeq(runs, LAMBDA a : ~IsProbe(a))

\* The dry-run probe ended without a zero returncode.
ProbeFailed == probed \in {"unknown_channel", "failed", "exception"}

\* Gateway URL and gateway token are both configured.
GatewayConfigured == Truthy(gateway_url) /\ Truthy(gateway_token)

\* C11: when the CLI is available and the dry-run probe returned zero, the
\* CLI path is selected: the dispatch of the probing call and every later
\* dispatch is one subprocess.run of the dispatcher's argument vector, and
\* no HTTP POST is made, gateway URL and token configured or not.
C11_ProbeOkSelectsCli ==
    (cli_available /\ probed = "ok")
    => /\ tested /\ ~use_http
       /\ last.posts = <<>>
       /\ Len(CliSends(last.runs)) = Len(last.dispatches)
       /\ \A i \in 1..Len(last.dispatches) :
             CliSends(last.runs)[i] = last.dispatches[i].args

\* C11 witness: gateway URL and token are set, the first call probed, got a
\* zero returncode and sent through the CLI, and the second call sent through
\* the CLI again.
C11_Witness ==
    /\ cli_available /\ probed = "ok" /\ calls = 2
    /\ gateway_url = GoodUrl /\ Truthy(gateway_token)
    /\ Len(prev.dispatches) = 1
    /\ Len(last.dispatches) = 1
    /\ last.runs = <<last.dispatches[1].args>>
    /\ last.posts = <<>>

\* C12: when the CLI is unavailable or the dry-run probe failed, the HTTP
\* path is selected exactly when gateway URL and token are both configured,
\* and then every dispatch is one HTTP POST; when either is missing delivery
\* is disabled for good: no sending subprocess.run and no POST.
C12_FallbackHttpOrDisabled ==
    (Configured /\ tested /\ (~cli_available \/ ProbeFailed))
    => /\ CliSends(last.runs) = <<>>
       /\ IF GatewayConfigured
          THEN /\ Len(last.posts) = Len(last.dispatches)
               /\ \A i \in 1..Len(last.posts) : last.posts[i].url = gateway_url
          ELSE last.posts = <<>>

\* C13: the self-test never raises: an exception while probing (spawn
\* failure, timeout, error while reading the probe output) is caught, and
\* leaves the notifier in the delivery state a non-zero returncode leaves it
\* in: tested, on the HTTP path, for every later call.
C13_ProbeExceptionCaught ==
    /\ ~last.selftest_raised
    /\ ProbeFailed => (tested /\ use_http /\ CliSends(last.runs) = <<>>)
    /\ last.probe = "exception"
       => /\ last.diags = <<ProbeDiag("exception"),
                            IF GatewayConfigured THEN "using_http" ELSE "silent">>
          /\ last.raised => (GatewayConfigured /\ RequestRaises(gateway_url))
          /\ (GatewayConfigured /\ ~RequestRaises(gateway_url))
             => Len(last.posts) = Len(last.dispatches)

\* C13 witness: the probe of the first call ended with an exception, that
\* call returned, and the second call sent over HTTP.
C13_Witness ==
    /\ probed = "exception" /\ calls = 2
    /\ prev.dispatches # <<>>
    /\ last.probe = "none" /\ ~last.raised
    /\ Len(last.posts) = 1

\* C14: every send_now and maybe_send call returns: the CLI probe, the CLI
\* dispatch and the HTTP POST are each bounded by a timeout, so a peer that
\* never answers cannot keep a call blocked.
C14_EveryCallReturns == last.returned

\* C15: wrap returns 1 for an empty command vector, 127 when the command is
\* not found, the exit code c of a command that exits with c, and 128 + N
\* for a command terminated by signal N; whatever happens to the
\* notification, the status is the same and no exception leaves wrap.
C15_WrapStatusMapping ==
    (last.op = "wrap" /\ last.returned)
    => /\ ~last.raised
       /\ last.argv = <<>> => last.status = 1
       /\ last.child.kind = "not_found" => last.status = 127
       /\ last.child.kind = "exit" => last.status = last.child.n
       /\ last.child.kind = "signal" => last.status = 128 + last.child.n

\* C15 witness: a command killed by signal 9 gave status 137 although the
\* notification failed with an exception.
C15_Witness ==
    /\ last.op = "wrap" /\ last.returned
    /\ last.child = [kind |-> "signal", n |-> 9]
    /\ last.status = 137
    /\ last.notify_raised

\* C16: wrap with a non-empty command vector makes exactly one send_now
\* call, after the command has completed, however the command ended; wrap
\* with an empty command vector makes none and does not run the self-test.
C16_WrapNotifiesOnce ==
    [][(calls' = calls + 1 /\ last'.op = "wrap")
       => IF last'.argv = <<>>
          THEN /\ last'.events = <<>>
               /\ last'.dispatches = <<>>
               /\ last'.runs = <<>> /\ last'.posts = <<>> /\ last'.diags = <<>>
               /\ tested' = tested /\ use_http' = use_http /\ probes' = probes
          ELSE /\ last'.events = <<"child_done", "send_now">>
               /\ Len(last'.dispatches) = IF Configured THEN 1 ELSE 0
               /\ Configured
                  => Carries(last'.dispatches[1].args, "--message", last'.message)
               /\ last_sent' = last_sent /\ last_plot_sent' = last_plot_sent]_vars

\* C16 witness: two wrap calls on a configured notifier, the first with an
\* empty command vector left the notifier untested, the second, whose
\* command was not found, sent one notification.
C16_Witness ==
    /\ Configured /\ calls = 2
    /\ prev.op = "wrap" /\ prev.dispatches = <<>>
    /\ last.op = "wrap" /\ last.child.kind = "not_found"
    /\ Len(last.dispatches) = 1 /\ probes = 1

\* The command line is well formed: at least one argument, and --plot
\* followed by a value.
WellFormed(args) ==
    /\ args # <<>>
    /\ \A i \in 1..Len(args) : args[i] = "--plot" => i < Len(args)

\* C17: the command-line entry point exits 0 for every well-formed
\* invocation, whatever the environment variables and the outcome of the
\* delivery, and exits 1 only when no argument is given or --plot has no
\* value.
C17_MainExitStatus ==
    (last.op \in {"main_start", "main"} /\ last.exited)
    => /\ WellFormed(last.argv) => last.exit = 0
       /\ ~WellFormed(last.argv) => last.exit = 1

\* C18: _detect_channel_type is total: telegram gives table; discord, slack
\* and whatsapp give rich; signal and imessage give plain; any other
\* channel and an absent channel give rich.
C18_DetectChannelTypeTable ==
    last.op = "detect"
    => /\ last.style \in {"rich", "table", "plain"}
       /\ last.arg = "telegram" => last.style = "table"
       /\ last.arg \in {"discord", "slack", "whatsapp"} => last.style = "rich"
       /\ last.arg \in {"signal", "imessage"} => last.style = "plain"
       /\ last.arg \notin {"telegram", "discord", "slack", "whatsapp",
                           "signal", "imessage"} => last.style = "rich"

\* C18 witness: the absent channel was classified rich, in the second of two
\* calls.
C18_Witness ==
    /\ last.op = "detect" /\ prev.op = "detect"
    /\ last.arg = None /\ last.style = "rich"

\* C19: a maybe_send call on a configured notifier in which the plot is due
\* and the text is not makes one dispatcher call with the message and the
\* plot path, sets last_plot_sent to now and leaves last_sent as it was.
C19_PlotOnlyKeepsTextTimestamp ==
    [][(calls' = calls + 1 /\ last'.op = "maybe_send" /\ Configured
        /\ ~TextDue(last'.now) /\ PlotDue(last'.now, last'.plot))
       => /\ Len(last'.dispatches) = 1
          /\ Carries(last'.dispatches[1].args, "--message", last'.message)
          /\ Carries(last'.dispatches[1].args, "--media", last'.plot)
          /\ last'.dispatches[1].media = last'.plot
          /\ last_plot_sent' = last'.now
          /\ last_sent' = last_sent]_vars

\* C19 witness: a first maybe_send call sent the text at a positive clock
\* reading; a second one, inside the text interval, sent the plot only and
\* left last_sent at the first reading.
C19_Witness ==
    /\ TwoMaybeSends
    /\ Len(prev.dispatches) = 1 /\ prev.now > 0
    /\ Len(last.dispatches) = 1 /\ last.dispatches[1].media = last.plot
    /\ Truthy(last.plot)
    /\ last.now - last_sent < interval_sec
    /\ last_sent = prev.now /\ last_sent # last.now
    /\ last_plot_sent = last.now

\* C20: a maybe_send call on a configured notifier makes a dispatcher call
\* exactly when the text is due or the plot is due; when neither is due it
\* makes none, does not run the self-test, and leaves the timestamps and
\* the delivery state as they were.
C20_DispatchIffDue ==
    [][(calls' = calls + 1 /\ last'.op = "maybe_send" /\ Configured)
       => /\ (last'.dispatches # <<>>)
             <=> (TextDue(last'.now) \/ PlotDue(last'.now, last'.plot))
          /\ (~TextDue(last'.now) /\ ~PlotDue(last'.now, last'.plot))
             => /\ last'.runs = <<>> /\ last'.posts = <<>>
                /\ last'.diags = <<>> /\ last'.probe = "none"
                /\ probes' = probes
                /\ last_sent' = last_sent
                /\ last_plot_sent' = last_plot_sent
                /\ tested' = tested /\ use_http' = use_http]_vars

\* C20 witness: a maybe_send call on a configured, still untested notifier
\* found neither the text nor the plot due, and left it untested.
C20_Witness ==
    /\ Configured /\ calls = 2
    /\ prev.op = "maybe_send" /\ prev.dispatches = <<>>
    /\ last.op = "maybe_send" /\ last.dispatches = <<>>
    /\ Truthy(last.plot)
    /\ ~tested /\ probes = 0
    /\ last.now - last_sent < interval_sec
    /\ last.now - last_plot_sent < plot_interval_sec

\* C21: on the HTTP path the message of every posted payload is the message
\* the caller passed to send_now / maybe_send, and its channel and target
\* are the configured ones, whatever channel, target and message are,
\* values spelled like a CLI option included.
C21_HttpPayloadFaithful ==
    \A i \in 1..Len(last.posts) :
        /\ last.posts[i].message = last.message
        /\ last.posts[i].channel = channel
        /\ last.posts[i].target = target

\* C22: maybe_send writes the timestamps when it decides to send, before the
\* dispatch and whatever its outcome: a dispatch that fails, or that sends
\* nothing because delivery is disabled, still opens the throttle window,
\* and the next maybe_send call inside the window is suppressed.
C22_FailedDispatchConsumesWindow ==
    [][(calls' = calls + 1 /\ last'.op = "maybe_send" /\ Configured)
       => /\ last_sent' = IF TextDue(last'.now) THEN last'.now ELSE last_sent
          /\ last_plot_sent' = IF PlotDue(last'.now, last'.plot)
                               THEN last'.now ELSE last_plot_sent
          /\ (/\ last.op = "maybe_send" /\ last.dispatches # <<>>
              /\ last_sent = last.now
              /\ last'.now >= last.now
              /\ last'.now - last.now < interval_sec
              /\ ~Truthy(last'.plot))
             => last'.dispatches = <<>>]_vars

\* C22 witness: delivery is disabled (HTTP selected, gateway not configured),
\* the first maybe_send call dispatched to no effect and set last_sent, and
\* the second one, inside the interval, was suppressed.
C22_Witness ==
    /\ TwoMaybeSends
    /\ tested /\ use_http /\ ~GatewayConfigured
    /\ Len(prev.dispatches) = 1 /\ prev.now > 0
    /\ last.dispatches = <<>>
    /\ last_sent = prev.now
    /\ last.now >= prev.now /\ last.now - prev.now < interval_sec

\* C23: each dispatcher call makes at most one external send, over the path
\* the self-test selected: one sending subprocess.run or one POST, never
\* both; a CLI send that fails is not retried and does not fall back to
\* HTTP, and a failed POST does not fall back to the CLI.
C23_OneSendOverSelectedPath ==
    /\ Len(CliSends(last.runs)) + Len(last.posts) <= Len(last.dispatches)
    /\ CliSends(last.runs) # <<>> => (~use_http /\ last.posts = <<>>)
    /\ last.posts # <<>> => (use_http /\ CliSends(last.runs) = <<>>)
    /\ last.run \in {"nonzero", "exception"}
       => /\ last.posts = <<>> /\ ~use_http
          /\ Len(CliSends(last.runs)) = Len(last.dispatches)
    /\ last.http = "error"
       => /\ CliSends(last.runs) = <<>> /\ use_http
          /\ Len(last.posts) = Len(last.dispatches)

\* C23 witness: the CLI path is selected, gateway URL and token are set, and
\* the sending subprocess.run of the second call raised: one CLI send, no
\* POST.
C23_Witness ==
    /\ calls = 2 /\ ~use_http /\ tested
    /\ gateway_url = GoodUrl /\ Truthy(gateway_token)
    /\ Len(last.dispatches) = 1
    /\ last.run = "exception"
    /\ last.runs = <<last.dispatches[1].args>>
    /\ last.posts = <<>>

\* C24: with non-negative intervals last_sent and last_plot_sent never
\* decrease; each changes only in a maybe_send call, to the clock reading of
\* that call; and two consecutive text dispatches of maybe_send (dispatches
\* with no attachment) have clock readings at least interval_sec apart,
\* two consecutive plot dispatches at least plot_interval_sec apart.
C24_TimestampsMonotonic ==
    /\ []((TwoMaybeSends /\ Len(prev.dispatches) = 1 /\ Len(last.dispatches) = 1)
          => /\ (~Truthy(prev.dispatches[1].media) /\ ~Truthy(last.dispatches[1].media))
                => last.now - prev.now >= interval_sec
             /\ (Truthy(prev.dispatches[1].media) /\ Truthy(last.dispatches[1].media))
                => last.now - prev.now >= plot_interval_sec)
    /\ [][(calls' = calls + 1)
          => /\ last_sent' >= last_sent
             /\ last_plot_sent' >= last_plot_sent
             /\ last_sent' # last_sent
                => /\ last'.op = "maybe_send" /\ last_sent' = last'.now
                   /\ last'.now - last_sent >= interval_sec
             /\ last_plot_sent' # last_plot_sent
                => /\ last'.op = "maybe_send" /\ last_plot_sent' = last'.now
                   /\ last'.now - last_plot_sent >= plot_interval_sec]_vars

\* C24 witness: two text dispatches of maybe_send with a positive interval,
\* the second at a later clock reading, at least the interval after the
\* first, and last_sent moved from the first reading to the second.
C24_Witness ==
    /\ TwoMaybeSends /\ interval_sec > 0
    /\ Len(prev.dispatches) = 1 /\ ~Truthy(prev.dispatches[1].media)
    /\ Len(last.dispatches) = 1 /\ ~Truthy(last.dispatches[1].media)
    /\ prev.now > 0
    /\ last.now - prev.now >= interval_sec
    /\ last_sent = last.now

\* The call of the frame reached the dispatcher and is over.
Dispatched(f) == f.pc = "done" /\ f.path # "none"

\* C25: when two callers interleave maybe_send on one shared notifier with
\* no lock, the sequential guarantees still hold: two text dispatches have
\* clock readings at least interval_sec apart, the dry-run probe is issued at
\* most once, and no call sends over the CLI before the self-test that
\* selects the path has finished.
C25_InterleavedKeepsGuarantees ==
    /\ \A c \in Callers : \A d \in Callers \ {c} :
          (Dispatched(frames[c]) /\ Dispatched(frames[d]))
          => Dist(frames[c].now, frames[d].now) >= interval_sec
    /\ probes <= 1
    /\ \A c \in Callers : ~frames[c].early

\* C25 as amended: the sequential guarantees hold for the calls that did not
\* overlap with another call: their text dispatches have clock readings at
\* least interval_sec apart, they never send over the CLI during a
\* self-test, and when no two calls overlapped the probe was issued at most
\* once; calls that overlap keep only this: at most one probe per call begun.
C25_NonOverlappingKeepGuarantees ==
    /\ \A c \in Callers : \A d \in Callers \ {c} :
          (Dispatched(frames[c]) /\ Dispatched(frames[d])
           /\ frames[c].alone /\ frames[d].alone)
          => Dist(frames[c].now, frames[d].now) >= interval_sec
    /\ (\A c \in Callers : frames[c].alone) => probes <= 1
    /\ \A c \in Callers : frames[c].alone => ~frames[c].early
    /\ probes <= Cardinality({c \in Callers : frames[c].pc # "idle"})

\* C25 witness: with a positive interval and the CLI available, two calls
\* that did not overlap both dispatched, and the probe was issued once.
C25_Witness ==
    /\ interval_sec > 0 /\ cli_available
    /\ \A c \in Callers : Dispatched(frames[c]) /\ frames[c].alone
    /\ probes = 1

=============================================================================
